---- MODULE Spec2Model ----
(***************************************************************************)
(* Model of the FastAPI backend in src/main.py: the contact-submission     *)
(* workflow (POST /contact), the SMTP relay helper it calls, and the       *)
(* database probe (GET /test).                                             *)
(*                                                                         *)
(* Text values.  A Python str is modelled as a finite sequence of symbols  *)
(* (<<>> is the empty string ""); Python's None is the distinguished value *)
(* None below, which is no text any input contains.  Only ports and email  *)
(* addresses are inspected symbol by symbol (int(), EmailStr); the other   *)
(* texts are carried around as they are.                                   *)
(***************************************************************************)
EXTENDS Integers, Sequences, FiniteSets, Bags, TLC

VARIABLES
    pc,         \* pc[r]: where request r of POST /contact stands
    body,       \* body[r]: the JSON body request r was submitted with
    doc,        \* doc[r]: the document submit_contact handed to create_document
    events,     \* events[r]: the external operations of request r, in order
    relay,      \* relay[r]: what send_email_via_smtp did for request r
    response,   \* response[r]: what the caller of request r got back
    store,      \* the "contactmessage" collection, a bag of documents
    relayIn,    \* inputs of a stand-alone call of send_email_via_smtp
    relayOut,   \* its outcome
    testIn,     \* inputs of a GET /test call
    testOut     \* its outcome

vars == <<pc, body, doc, events, relay, response, store,
          relayIn, relayOut, testIn, testOut>>

----------------------------------------------------------------------------
(* Bounds *)

\* number of POST /contact requests that may be in flight together
NumReq == 2
\* largest number of collections the database lists (one past the cut of 10)
MaxCollections == 11

(* Program constants *)

\* collections[:10]
ShownCollections == 10
\* str(e)[:50] in test_database
TestErrorCap == 50
\* str(e)[:120] in submit_contact
ContactErrorCap == 120
\* HTTP statuses
HttpOk == 200
HttpServerError == 500
HttpUnprocessable == 422

Reqs == 1..NumReq

----------------------------------------------------------------------------
(* Python values *)

None == <<"<None>">>

\* bool(v) of a str-or-None value: None and "" are falsy
Truthy(v) == v # None /\ v # <<>>

\* a or b
OrElse(a, b) == IF Truthy(a) THEN a ELSE b

\* s[:n]
Truncate(s, n) == SubSeq(s, 1, IF Len(s) < n THEN Len(s) ELSE n)

\* an error message of n characters
ErrorText(n) == [i \in 1..n |-> "e"]

\* os.getenv(key, default): the variable's value, the default when it is unset
Getenv(env, key, default) == IF env[key] = None THEN default ELSE env[key]

Digits == {"0", "1", "2", "3", "4", "5", "6", "7", "8", "9"}

DigitValue(c) ==
    CASE c = "0" -> 0 [] c = "1" -> 1 [] c = "2" -> 2 [] c = "3" -> 3
      [] c = "4" -> 4 [] c = "5" -> 5 [] c = "6" -> 6 [] c = "7" -> 7
      [] c = "8" -> 8 [] c = "9" -> 9

RECURSIVE DecimalValue(_)
DecimalValue(s) ==
    IF s = <<>> THEN 0
    ELSE 10 * DecimalValue(SubSeq(s, 1, Len(s) - 1)) + DigitValue(s[Len(s)])

\* int(s): ValueError unless s is a non-empty run of decimal digits (the
\* inputs below hold digits and letters only: no sign, blank or underscore)
ParseInt(s) ==
    IF s # <<>> /\ \A i \in 1..Len(s) : s[i] \in Digits
    THEN [ok |-> TRUE, value |-> DecimalValue(s)]
    ELSE [ok |-> FALSE, value |-> 0]

----------------------------------------------------------------------------
(* ContactIn: the request schema *)

Positions(s, c) == {i \in 1..Len(s) : s[i] = c}

\* a domain: labels separated by single dots, at least one dot
IsDomain(d) ==
    /\ d # <<>>
    /\ Positions(d, ".") # {}
    /\ d[1] # "." /\ d[Len(d)] # "."
    /\ \A i \in 1..(Len(d) - 1) : ~(d[i] = "." /\ d[i + 1] = ".")

\* a local part: non-empty, no leading, trailing or doubled dot
IsLocalPart(l) ==
    /\ l # <<>>
    /\ l[1] # "." /\ l[Len(l)] # "."
    /\ \A i \in 1..(Len(l) - 1) : ~(l[i] = "." /\ l[i + 1] = ".")

\* EmailStr: the value is a string of the form local@domain
IsEmailStr(v) ==
    /\ v # None
    /\ Cardinality(Positions(v, "@")) = 1
    /\ LET at == CHOOSE i \in Positions(v, "@") : TRUE
       IN  /\ IsLocalPart(SubSeq(v, 1, at - 1))
           /\ IsDomain(SubSeq(v, at + 1, Len(v)))

\* variant: email declared str, so any string passes
ValidContactIn_EmailAsStr(b) ==
    /\ b.name # None
    /\ b.email # None
    /\ b.message # None

\* name: str and message: str are required strings (any string, "" included);
\* email: EmailStr; subject: Optional[str] = None
ValidContactIn(b) ==
    /\ b.name # None
    /\ IsEmailStr(b.email)
    /\ b.message # None

----------------------------------------------------------------------------
(* send_email_via_smtp *)

DefaultPort == <<"5", "8", "7">>
RelayDefaultSubject == <<"New Portfolio Contact Message">>
ContactDefaultSubject == <<"Portfolio Contact">>

NoMessage == [Subject |-> None, From |-> None, To |-> None, body |-> None]

\* the relay did nothing (also the value before any call)
NoRelay ==
    [called |-> FALSE, raised |-> FALSE, ret |-> FALSE, netops |-> <<>>,
     msg |-> NoMessage, transmitted |-> FALSE]

\* formataddr((name, user))
FormatAddr(name, user) ==
    IF name = <<>> THEN user ELSE name \o <<" <">> \o user \o <<">">>

\* outcomes of the SMTP session, in the order the session proceeds
NetOutcomes == {"connect_fails", "starttls_fails", "login_fails",
                "sendmail_fails", "delivered"}

\* the network operations attempted when the session ends with `net`
NetOps(net) ==
    CASE net = "connect_fails"  -> <<"connect">>
      [] net = "starttls_fails" -> <<"connect", "starttls", "quit">>
      [] net = "login_fails"    -> <<"connect", "starttls", "login", "quit">>
      [] net = "sendmail_fails" ->
            <<"connect", "starttls", "login", "sendmail", "quit">>
      [] net = "delivered"      ->
            <<"connect", "starttls", "login", "sendmail", "quit">>

Called(raised, ret, netops, msg, transmitted) ==
    [called |-> TRUE, raised |-> raised, ret |-> ret, netops |-> netops,
     msg |-> msg, transmitted |-> transmitted]

\* variant: msg["Subject"] = subject, without the default
RelayMessage_NoDefault(name, email, subject, message, user, to_email) ==
    [Subject |-> subject,
     From    |-> FormatAddr(name, user),
     To      |-> to_email,
     body    |-> <<"Name: ">> \o name \o <<"\nEmail: ">> \o email
                 \o <<"\n\nMessage:\n">> \o message]

\* full_subject, body and the headers of msg
RelayMessage(name, email, subject, message, user, to_email) ==
    [Subject |-> OrElse(subject, RelayDefaultSubject),
     From    |-> FormatAddr(name, user),
     To      |-> to_email,
     body    |-> <<"Name: ">> \o name \o <<"\nEmail: ">> \o email
                 \o <<"\n\nMessage:\n">> \o message]

send_email_via_smtp(name, email, subject, message, env, net) ==
    LET host     == Getenv(env, "SMTP_HOST", None)
        port     == ParseInt(Getenv(env, "SMTP_PORT", DefaultPort))
        user     == Getenv(env, "SMTP_USER", None)
        password == Getenv(env, "SMTP_PASS", None)
        to_email == Getenv(env, "SMTP_TO", user)
        msg      == RelayMessage(name, email, subject, message, user, to_email)
    IN  IF ~port.ok
        THEN \* int() raises ValueError before the configuration is looked at
             Called(TRUE, FALSE, <<>>, NoMessage, FALSE)
        ELSE IF ~Truthy(host) \/ ~Truthy(user) \/ ~Truthy(password)
                \/ ~Truthy(to_email)
        THEN Called(FALSE, FALSE, <<>>, NoMessage, FALSE)
        ELSE IF net = "delivered"
        THEN Called(FALSE, TRUE, NetOps(net), msg, TRUE)
        ELSE Called(TRUE, FALSE, NetOps(net), msg, FALSE)

----------------------------------------------------------------------------
(* The document store (module database) *)

\* create_document(collection, document): the store appends the document and
\* acknowledges, or raises and appends nothing
create_document(collection, document, succeeds) ==
    IF succeeds THEN collection (+) SetToBag({document}) ELSE collection

----------------------------------------------------------------------------
(* submit_contact *)

NoDoc == [name |-> None, email |-> None, subject |-> None, message |-> None]

NoResponse ==
    [kind |-> "none", status |-> 0, ok |-> FALSE, email_sent |-> FALSE,
     detail |-> None]

\* the ContactIn payload the handler is called with
Payload(b) ==
    [name |-> b.name, email |-> b.email, subject |-> b.subject,
     message |-> b.message]

\* variant: the default subject written into the document
ContactDoc_SubjectDefaulted(payload) ==
    [name    |-> payload.name,
     email   |-> payload.email,
     subject |-> OrElse(payload.subject, ContactDefaultSubject),
     message |-> payload.message]

\* doc = {"name": ..., "email": ..., "subject": ..., "message": ...}
ContactDoc(payload) ==
    [name    |-> payload.name,
     email   |-> payload.email,
     subject |-> payload.subject,
     message |-> payload.message]

\* the framework's answer to a body that fails the ContactIn schema
ValidationError ==
    [kind |-> "http_error", status |-> HttpUnprocessable, ok |-> FALSE,
     email_sent |-> FALSE, detail |-> <<"validation error">>]

\* raise HTTPException(status_code=500, detail=f"Database error: {str(e)[:120]}")
DatabaseError(e) ==
    [kind |-> "http_error", status |-> HttpServerError, ok |-> FALSE,
     email_sent |-> FALSE,
     detail |-> <<"Database error: ">> \o Truncate(e, ContactErrorCap)]

\* return {"ok": True, "email_sent": sent}
Result(sent) ==
    [kind |-> "result", status |-> HttpOk, ok |-> TRUE, email_sent |-> sent,
     detail |-> None]

\* the subject submit_contact passes to the relay
NotifySubject(payload) == OrElse(payload.subject, ContactDefaultSubject)

\* variant: no try around the relay call, its exception fails the request
AfterRelay_Propagates(res) ==
    IF res.raised THEN DatabaseError(<<"smtp">>) ELSE Result(res.ret)

\* variant: sent left True when the relay raises
AfterRelay_SentByDefault(res) ==
    IF res.raised THEN Result(TRUE) ELSE Result(res.ret)

\* sent = False; try: sent = send_email_via_smtp(...) except Exception: sent = False
\* then the return: what the caller gets for a relay outcome
AfterRelay(res) ==
    IF res.raised THEN Result(FALSE) ELSE Result(res.ret)

\* POST /contact arrives: the body is validated against ContactIn; a valid
\* one enters submit_contact, which builds doc and awaits create_document
Submit(r, b) ==
    /\ pc[r] = "idle"
    /\ body' = [body EXCEPT ![r] = b]
    /\ IF ValidContactIn(b)
       THEN /\ doc' = [doc EXCEPT ![r] = ContactDoc(Payload(b))]
            /\ events' = [events EXCEPT ![r] = <<"store_call">>]
            /\ pc' = [pc EXCEPT ![r] = "awaiting_store"]
            /\ UNCHANGED response
       ELSE /\ response' = [response EXCEPT ![r] = ValidationError]
            /\ pc' = [pc EXCEPT ![r] = "done"]
            /\ UNCHANGED <<doc, events>>
    /\ UNCHANGED <<relay, store, relayIn, relayOut, testIn, testOut>>

\* variant: the append is issued a second time
StoreAcks_Twice(r) ==
    /\ pc[r] = "awaiting_store"
    /\ store' = create_document(create_document(store, doc[r], TRUE), doc[r], TRUE)
    /\ events' = [events EXCEPT ![r] = @ \o <<"store_ack">>]
    /\ pc' = [pc EXCEPT ![r] = "notify"]
    /\ UNCHANGED <<body, doc, relay, response, relayIn, relayOut, testIn, testOut>>

\* await create_document(...) returns: the document is in the store
StoreAcks(r) ==
    /\ pc[r] = "awaiting_store"
    /\ store' = create_document(store, doc[r], TRUE)
    /\ events' = [events EXCEPT ![r] = @ \o <<"store_ack">>]
    /\ pc' = [pc EXCEPT ![r] = "notify"]
    /\ UNCHANGED <<body, doc, relay, response, relayIn, relayOut, testIn, testOut>>

\* variant: the store error is swallowed and the handler goes on to the email
StoreRaises_ProceedsToEmail(r, e) ==
    /\ pc[r] = "awaiting_store"
    /\ store' = create_document(store, doc[r], FALSE)
    /\ events' = [events EXCEPT ![r] = @ \o <<"store_error">>]
    /\ pc' = [pc EXCEPT ![r] = "notify"]
    /\ UNCHANGED <<body, doc, relay, response, relayIn, relayOut, testIn, testOut>>

\* await create_document(...) raises: except Exception -> HTTPException(500)
StoreRaises(r, e) ==
    /\ pc[r] = "awaiting_store"
    /\ store' = create_document(store, doc[r], FALSE)
    /\ events' = [events EXCEPT ![r] = @ \o <<"store_error">>]
    /\ response' = [response EXCEPT ![r] = DatabaseError(e)]
    /\ pc' = [pc EXCEPT ![r] = "done"]
    /\ UNCHANGED <<body, doc, relay, relayIn, relayOut, testIn, testOut>>

\* variant: create_document not awaited, the handler runs on to the email
Notify_NotAwaited(r, env, net) ==
    /\ pc[r] \in {"awaiting_store", "notify"}
    /\ LET p   == Payload(body[r])
           res == send_email_via_smtp(p.name, p.email, NotifySubject(p),
                                      p.message, env, net)
       IN  /\ relay' = [relay EXCEPT ![r] = res]
           /\ events' = [events EXCEPT ![r] = @ \o <<"relay_call">> \o res.netops]
           /\ response' = [response EXCEPT ![r] = AfterRelay(res)]
    /\ pc' = [pc EXCEPT ![r] = "done"]
    /\ UNCHANGED <<body, doc, store, relayIn, relayOut, testIn, testOut>>

\* the rest of submit_contact, which runs without suspending: the relay is
\* called (os.getenv reads the environment at the call), its outcome folded
\* into `sent`, and the result returned
Notify(r, env, net) ==
    /\ pc[r] = "notify"
    /\ LET p   == Payload(body[r])
           res == send_email_via_smtp(p.name, p.email, NotifySubject(p),
                                      p.message, env, net)
       IN  /\ relay' = [relay EXCEPT ![r] = res]
           /\ events' = [events EXCEPT ![r] = @ \o <<"relay_call">> \o res.netops]
           /\ response' = [response EXCEPT ![r] = AfterRelay(res)]
    /\ pc' = [pc EXCEPT ![r] = "done"]
    /\ UNCHANGED <<body, doc, store, relayIn, relayOut, testIn, testOut>>

----------------------------------------------------------------------------
(* test_database *)

TestKeys == {"backend", "database", "database_url", "database_name",
             "connection_status", "collections"}

InitialTestResponse ==
    [backend           |-> <<"Running">>,
     database          |-> <<"Not Available">>,
     database_url      |-> None,
     database_name     |-> None,
     connection_status |-> <<"Not Connected">>,
     collections       |-> <<>>]

\* the body of the outer try: the response as far as it got, and the
\* exception that ended it ("none", "ImportError", "Exception")
ProbeDatabase(in) ==
    LET r0 == InitialTestResponse
        r1 == [r0 EXCEPT !.database = <<"Available">>,
                         !.database_url = <<"Configured">>]
        r2 == [r1 EXCEPT !.database_name =
                             IF in.has_name = "yes" THEN <<"db name">>
                             ELSE <<"Connected">>,
                         !.connection_status = <<"Connected">>]
    IN  CASE in.import = "import_error" ->
                [response |-> r0, raised |-> "ImportError", error |-> in.error]
          [] in.import = "error" ->
                [response |-> r0, raised |-> "Exception", error |-> in.error]
          [] in.import = "none" ->
                [response |-> [r0 EXCEPT !.database =
                                   <<"Available but not initialized">>],
                 raised |-> "none", error |-> in.error]
          [] in.import = "db" /\ in.has_name = "raises" ->
                [response |-> r1, raised |-> "Exception", error |-> in.error]
          [] in.import = "db" /\ in.has_name # "raises" /\ in.listing = "raises" ->
                [response |-> [r2 EXCEPT !.database =
                                   <<"Connected but Error: ">>
                                   \o Truncate(in.error, TestErrorCap)],
                 raised |-> "none", error |-> in.error]
          [] in.import = "db" /\ in.has_name # "raises" /\ in.listing = "ok" ->
                [response |-> [r2 EXCEPT !.collections =
                                   Truncate(in.collections, ShownCollections),
                                         !.database = <<"Connected & Working">>],
                 raised |-> "none", error |-> in.error]

\* the environment checks that end the handler
EnvChecks(resp, env) ==
    [resp EXCEPT !.database_url =
                     IF Truthy(env.DATABASE_URL) THEN <<"Set">> ELSE <<"Not Set">>,
                 !.database_name =
                     IF Truthy(env.DATABASE_NAME) THEN <<"Set">> ELSE <<"Not Set">>]

NoTestOut == [called |-> FALSE, status |-> 0, body |-> <<>>]

\* variant: the outer try catches ImportError only
test_database_OnlyImportError(in) ==
    LET p == ProbeDatabase(in)
    IN  IF p.raised = "Exception"
        THEN [called |-> TRUE, status |-> HttpServerError, body |-> <<>>]
        ELSE [called |-> TRUE, status |-> HttpOk,
              body |-> EnvChecks(
                  IF p.raised = "ImportError"
                  THEN [p.response EXCEPT !.database =
                            <<"Database module not found (run enable-database first)">>]
                  ELSE p.response, in.env)]

\* the handler: the probe, its two except clauses, the environment checks
test_database(in) ==
    LET p == ProbeDatabase(in)
        caught ==
            CASE p.raised = "ImportError" ->
                    [p.response EXCEPT !.database =
                        <<"Database module not found (run enable-database first)">>]
              [] p.raised = "Exception" ->
                    [p.response EXCEPT !.database =
                        <<"Error: ">> \o Truncate(p.error, TestErrorCap)]
              [] p.raised = "none" -> p.response
    IN  [called |-> TRUE, status |-> HttpOk, body |-> EnvChecks(caught, in.env)]

----------------------------------------------------------------------------
(* Inputs *)

Ada == <<"Ada">>
Hello == <<"Hello">>
Hi == <<"Hi">>
GoodEmail == <<"ada", "@", "example", ".", "com">>
BadEmails == {<<"ada">>, <<"ada", "@", "example">>, <<"@", "example", ".", "com">>}

\* request bodies: an absent field (or a JSON null) is None
Bodies ==
    {[name |-> n, email |-> GoodEmail, subject |-> None, message |-> Hello] :
        n \in {None, <<>>, Ada}}
    \cup
    {[name |-> Ada, email |-> GoodEmail, subject |-> s, message |-> Hello] :
        s \in {None, <<>>, Hi}}
    \cup
    {[name |-> Ada, email |-> e, subject |-> None, message |-> m] :
        e \in BadEmails \cup {None, GoodEmail}, m \in {None, <<>>, Hello}}

\* what create_document's exception says: a short and an over-long message
StoreErrors == {ErrorText(3), ErrorText(ContactErrorCap + 1)}

SmtpEnv(host, port, user, password, to) ==
    [SMTP_HOST |-> host, SMTP_PORT |-> port, SMTP_USER |-> user,
     SMTP_PASS |-> password, SMTP_TO |-> to]

Host == <<"smtp.example.com">>
User == <<"me", "@", "example", ".", "com">>
Pass == <<"secret">>
Inbox == <<"inbox", "@", "example", ".", "com">>

\* the process environments of the relay: every variable unset, empty or set
SmtpEnvs ==
    {SmtpEnv(h, p, u, w, t) :
        h \in {None, <<>>, Host},
        p \in {None, <<>>, <<"2", "5">>, <<"s", "m", "t", "p">>},
        u \in {None, <<>>, User},
        w \in {None, <<>>, Pass},
        t \in {None, <<>>, Inbox}}

\* the environments POST /contact is exercised under: nothing configured,
\* fully configured, fully configured with a malformed port
ContactEnvs ==
    {SmtpEnv(None, None, None, None, None),
     SmtpEnv(Host, None, User, Pass, None),
     SmtpEnv(Host, <<"s", "m", "t", "p">>, User, Pass, None)}

NoRelayIn ==
    [site |-> "none", name |-> None, email |-> None, subject |-> None,
     message |-> None, env |-> SmtpEnv(None, None, None, None, None),
     net |-> "delivered"]

RelayInputs ==
    [site : {"direct", "contact"}, name : {<<>>, Ada}, email : {GoodEmail},
     subject : {None, <<>>, Hi}, message : {Hello}, env : SmtpEnvs,
     net : NetOutcomes]

DbEnvs == [DATABASE_URL : {None, <<>>, <<"mongodb://db">>},
           DATABASE_NAME : {None, <<>>, <<"portfolio">>}]

Collections(n) == [i \in 1..n |-> i]

NoTestIn ==
    [import |-> "unset", has_name |-> "no", listing |-> "ok",
     collections |-> <<>>, error |-> <<>>,
     env |-> [DATABASE_URL |-> None, DATABASE_NAME |-> None]]

TestErrors == {ErrorText(0), ErrorText(TestErrorCap), ErrorText(TestErrorCap + 1)}

TestInputs ==
    [import : {"import_error", "none"}, has_name : {"no"}, listing : {"ok"},
     collections : {<<>>}, error : {<<>>}, env : DbEnvs]
    \cup
    [import : {"error"}, has_name : {"no"}, listing : {"ok"},
     collections : {<<>>}, error : TestErrors, env : DbEnvs]
    \cup
    [import : {"db"}, has_name : {"raises"}, listing : {"ok"},
     collections : {<<>>}, error : TestErrors, env : DbEnvs]
    \cup
    [import : {"db"}, has_name : {"yes", "no"}, listing : {"raises"},
     collections : {<<>>}, error : TestErrors, env : DbEnvs]
    \cup
    [import : {"db"}, has_name : {"yes", "no"}, listing : {"ok"},
     collections : {Collections(n) : n \in 0..MaxCollections},
     error : {<<>>}, env : DbEnvs]

----------------------------------------------------------------------------
(* The contact workflow: concurrent POST /contact requests *)

Init ==
    /\ pc = [r \in Reqs |-> "idle"]
    /\ body = [r \in Reqs |-> NoDoc]
    /\ doc = [r \in Reqs |-> NoDoc]
    /\ events = [r \in Reqs |-> <<>>]
    /\ relay = [r \in Reqs |-> NoRelay]
    /\ response = [r \in Reqs |-> NoResponse]
    /\ store = EmptyBag
    /\ relayIn = NoRelayIn
    /\ relayOut = NoRelay
    /\ testIn = NoTestIn
    /\ testOut = NoTestOut

Next ==
    \E r \in Reqs :
        \/ \E b \in Bodies : Submit(r, b)
        \/ StoreAcks(r)
        \/ \E e \in StoreErrors : StoreRaises(r, e)
        \/ \E env \in ContactEnvs, net \in NetOutcomes : Notify(r, env, net)

Spec == Init /\ [][Next]_vars

----------------------------------------------------------------------------
(* send_email_via_smtp on its own: every environment, every subject *)

\* a call with the arguments as given
RelayDirect ==
    /\ relayIn.site = "direct"
    /\ ~relayOut.called
    /\ relayOut' = send_email_via_smtp(relayIn.name, relayIn.email,
                       relayIn.subject, relayIn.message, relayIn.env, relayIn.net)
    /\ UNCHANGED <<pc, body, doc, events, relay, response, store,
                   relayIn, testIn, testOut>>

\* the call submit_contact makes for a payload with these fields
RelayFromContact ==
    /\ relayIn.site = "contact"
    /\ ~relayOut.called
    /\ relayOut' = send_email_via_smtp(relayIn.name, relayIn.email,
                       NotifySubject(relayIn), relayIn.message,
                       relayIn.env, relayIn.net)
    /\ UNCHANGED <<pc, body, doc, events, relay, response, store,
                   relayIn, testIn, testOut>>

InitRelay ==
    /\ pc = [r \in Reqs |-> "idle"]
    /\ body = [r \in Reqs |-> NoDoc]
    /\ doc = [r \in Reqs |-> NoDoc]
    /\ events = [r \in Reqs |-> <<>>]
    /\ relay = [r \in Reqs |-> NoRelay]
    /\ response = [r \in Reqs |-> NoResponse]
    /\ store = EmptyBag
    /\ relayIn \in RelayInputs
    /\ relayOut = NoRelay
    /\ testIn = NoTestIn
    /\ testOut = NoTestOut

NextRelay == RelayDirect \/ RelayFromContact

SpecRelay == InitRelay /\ [][NextRelay]_vars

----------------------------------------------------------------------------
(* GET /test on its own: every state of the database module *)

TestDatabase ==
    /\ ~testOut.called
    /\ testOut' = test_database(testIn)
    /\ UNCHANGED <<pc, body, doc, events, relay, response, store,
                   relayIn, relayOut, testIn>>

InitTest ==
    /\ pc = [r \in Reqs |-> "idle"]
    /\ body = [r \in Reqs |-> NoDoc]
    /\ doc = [r \in Reqs |-> NoDoc]
    /\ events = [r \in Reqs |-> <<>>]
    /\ relay = [r \in Reqs |-> NoRelay]
    /\ response = [r \in Reqs |-> NoResponse]
    /\ store = EmptyBag
    /\ relayIn = NoRelayIn
    /\ relayOut = NoRelay
    /\ testIn \in TestInputs
    /\ testOut = NoTestOut

NextTest == TestDatabase

SpecTest == InitTest /\ [][NextTest]_vars

----------------------------------------------------------------------------
(* Properties *)

Has(seq, x) == \E i \in 1..Len(seq) : seq[i] = x

Count(seq, x) == Cardinality({i \in 1..Len(seq) : seq[i] = x})

RelayEvents == {"relay_call", "connect", "starttls", "login", "sendmail", "quit"}

C3_EmailSentIffTransmitted ==
    \A r \in Reqs :
        /\ response[r].kind = "result" =>
              /\ response[r].ok
              /\ response[r].email_sent <=>
                    (relay[r].called /\ relay[r].transmitted)
        /\ (Has(events[r], "store_ack") /\ relay[r].transmitted) =>
              response[r] = Result(TRUE)

C3_Witness ==
    \E r \in Reqs :
        /\ response[r] = Result(TRUE)
        /\ relay[r].transmitted

Untouched(r) ==
    /\ events[r] = <<>>
    /\ doc[r] = NoDoc
    /\ ~relay[r].called

GateMissing(env) ==
    \/ ~Truthy(env.SMTP_HOST)
    \/ ~Truthy(env.SMTP_USER)
    \/ ~Truthy(env.SMTP_PASS)
    \/ ~Truthy(IF env.SMTP_TO = None THEN env.SMTP_USER ELSE env.SMTP_TO)

\* C6: with host, user, password or the resolved recipient missing,
\* send_email_via_smtp returns false, raises nothing and attempts no network
\* operation.
C6_UnconfiguredIsANoOp ==
    (relayOut.called /\ GateMissing(relayIn.env)) =>
        /\ ~relayOut.raised
        /\ relayOut.ret = FALSE
        /\ relayOut.netops = <<>>

C8_TestNeverFails ==
    testOut.called =>
        /\ testOut.status = HttpOk
        /\ DOMAIN testOut.body = TestKeys
        /\ Len(testOut.body.collections) <= ShownCollections

C8_Witness ==
    /\ testOut.called
    /\ testIn.import = "db"
    /\ testIn.listing = "raises"
    /\ testOut.status = HttpOk
    /\ testOut.body.collections = <<>>

\* C9: a transmitted message has a non-empty subject: the caller's subject
\* when it is a non-empty text, otherwise the default of the call site.
C9_SubjectNeverEmpty ==
    relayOut.transmitted =>
        /\ relayOut.msg.Subject # None
        /\ relayOut.msg.Subject # <<>>
        /\ Truthy(relayIn.subject) => relayOut.msg.Subject = relayIn.subject
        /\ ~Truthy(relayIn.subject) =>
              relayOut.msg.Subject =
                  IF relayIn.site = "contact" THEN ContactDefaultSubject
                  ELSE RelayDefaultSubject

C9_Witness ==
    /\ relayOut.transmitted
    /\ relayIn.site = "direct"
    /\ relayIn.subject = <<>>
    /\ relayOut.msg.Subject = RelayDefaultSubject

Quiescent == \A r \in Reqs : pc[r] \in {"idle", "done"}

====
